---------------------------- MODULE Spec2Model ----------------------------
(***************************************************************************)
(* The voice-assistant endpoint of asycd/swift-asyra: one POST handler     *)
(* that decodes a multipart form, obtains a transcript, retrieves context  *)
(* from a vector index, asks a chat model for a reply and, in the voice    *)
(* revisions, sends the reply to a text-to-speech service.                 *)
(*                                                                         *)
(* The repository holds several revisions of the handler.  Each is a       *)
(* value of the variable `variant`:                                        *)
(*   "P0"  src/unnamed/part_000       direct embedding, text reply         *)
(*   "P1"  src/unnamed/part_001       JSON keywords, voice reply           *)
(*   "P2"  src/unnamed/part_002       comma keywords, voice, try/catch     *)
(*   "RB"  src/app/api/route.ts:103   comma keywords, voice, no try/catch  *)
(*   "RS"  src/app/api/route.ts:362   part_000 with a log of its progress  *)
(* (route.ts:1-101 is a cut-off copy of part_002.)  "RS" appends its log   *)
(* to an element of `document`, which the module creates when it is        *)
(* loaded; the model takes that document as given.                         *)
(*                                                                         *)
(* One step of the model is what JavaScript runs between two awaits: the   *)
(* handler resumes with the result of the pending external call, runs to   *)
(* the next external call (which it issues) or to its return.              *)
(*                                                                         *)
(* Text is a sequence of one-character strings.  An exception that leaves  *)
(* POST is answered by the framework with a bodiless HTTP 500; the         *)
(* response record marks it with uncaught = TRUE.                          *)
(***************************************************************************)
EXTENDS Integers, Sequences, FiniteSets, TLC

(***************************************************************************)
(* Bounds of the model.                                                    *)
(***************************************************************************)
\* longest text `input` field
MaxTextLen == 1
\* most `message` fields of a request
MaxHistory == 1
\* most items in a keyword-extraction reply
MaxReplyItems == 6
\* longest text returned by the speech-to-text service
MaxSttLen == 2

(***************************************************************************)
(* Program constants.                                                      *)
(***************************************************************************)
\* keywords.slice(0, 5)
KeywordCap == 5
\* topK of every index query
TopK == 5

(***************************************************************************)
(* Text.                                                                   *)
(***************************************************************************)
\* JavaScript null / undefined, as a value of the text type
Null == <<"<null>">>

\* an unpaired UTF-16 surrogate, one code unit
LoneSurrogate == "<D800>"

Min(a, b) == IF a < b THEN a ELSE b

\* all sequences over S of length 0..n
RECURSIVE SeqsUpTo(_, _)
SeqsUpTo(S, n) ==
    IF n = 0 THEN {<<>>}
    ELSE LET shorter == SeqsUpTo(S, n - 1)
         IN  shorter \cup {Append(s, c) : s \in {t \in shorter : Len(t) = n - 1}, c \in S}

\* !x for a text value
Falsy(s) == s = Null \/ s = <<>>

\* `${x}` for a text value
Interpolate(s) == IF s = Null THEN <<"n", "u", "l", "l">> ELSE s

IsSpace(c) == c \in {" ", "\n"}

RECURSIVE TrimStart(_)
TrimStart(s) ==
    IF s # <<>> /\ IsSpace(Head(s)) THEN TrimStart(Tail(s)) ELSE s

RECURSIVE TrimEnd(_)
TrimEnd(s) ==
    IF s # <<>> /\ IsSpace(s[Len(s)]) THEN TrimEnd(SubSeq(s, 1, Len(s) - 1)) ELSE s

\* only whitespace, or nothing at all
IsBlank(s) == \A k \in 1..Len(s) : IsSpace(s[k])

\* a trim that trims nothing
TrimNone(s) == s

\* String.prototype.trim
Trim(s) == TrimEnd(TrimStart(s))

RECURSIVE SplitAcc(_, _, _, _)
SplitAcc(s, sep, cur, acc) ==
    IF s = <<>> THEN Append(acc, cur)
    ELSE IF Head(s) = sep THEN SplitAcc(Tail(s), sep, <<>>, Append(acc, cur))
    ELSE SplitAcc(Tail(s), sep, Append(cur, Head(s)), acc)

\* String.prototype.split(sep): "" splits into one empty string
Split(s, sep) == SplitAcc(s, sep, <<>>, <<>>)

\* ss.map((x) => x.trim())
TrimAll(ss) == [k \in 1..Len(ss) |-> Trim(ss[k])]

\* Array.prototype.slice(0, n)
Slice(s, n) == SubSeq(s, 1, Min(n, Len(s)))

\* an element of a joined array: null and undefined join as ""
JoinItem(s) == IF s = Null THEN <<>> ELSE s

RECURSIVE Join(_, _)
\* Array.prototype.join(sep) of texts, sep a text
Join(ss, sep) ==
    IF ss = <<>> THEN <<>>
    ELSE IF Len(ss) = 1 THEN JoinItem(Head(ss))
    ELSE JoinItem(Head(ss)) \o sep \o Join(Tail(ss), sep)

IsPrefix(p, s) == Len(p) <= Len(s) /\ SubSeq(s, 1, Len(p)) = p

(***************************************************************************)
(* encodeURIComponent / decodeURIComponent over the model's characters.    *)
(***************************************************************************)
\* characters encodeURIComponent leaves as they are
Unreserved ==
    {"a", "b", "c", "d", "e", "f", "g", "h", "i", "j", "k", "l", "m", "n",
     "o", "p", "q", "r", "s", "t", "u", "v", "w", "x", "y", "z", "E",
     "0", "1", "2", "3", "4", "5", "6", "7", "8", "9",
     "-", "_", ".", "!", "~", "*", "'", "(", ")"}

\* characters encodeURIComponent escapes, with their UTF-8 escapes
Escaped ==
    {" ", "\n", ",", "%", "[", "]", "\"", ":", "{", "}"}

EscapeOf(c) ==
    CASE c = " "  -> <<"%", "2", "0">>
      [] c = "\n" -> <<"%", "0", "A">>
      [] c = ","  -> <<"%", "2", "C">>
      [] c = "%"  -> <<"%", "2", "5">>
      [] c = "["  -> <<"%", "5", "B">>
      [] c = "]"  -> <<"%", "5", "D">>
      [] c = "\"" -> <<"%", "2", "2">>
      [] c = ":"  -> <<"%", "3", "A">>
      [] c = "{"  -> <<"%", "7", "B">>
      [] c = "}"  -> <<"%", "7", "D">>

EncodeChar(c) == IF c \in Unreserved THEN <<c>> ELSE EscapeOf(c)

RECURSIVE EncodeText(_)
EncodeText(s) ==
    IF s = <<>> THEN <<>> ELSE EncodeChar(Head(s)) \o EncodeText(Tail(s))

\* encodeURIComponent(x): [ok, val]; a lone surrogate raises URIError
EncodeURIComponent(x) ==
    LET s == Interpolate(x)
    IN  IF \E k \in 1..Len(s) : s[k] = LoneSurrogate
        THEN [ok |-> FALSE, val |-> <<>>]
        ELSE [ok |-> TRUE, val |-> EncodeText(s)]

RECURSIVE DecodeText(_)
\* decodeURIComponent(s): [ok, val]; a malformed escape raises URIError
DecodeText(s) ==
    IF s = <<>> THEN [ok |-> TRUE, val |-> <<>>]
    ELSE IF Head(s) = "%"
    THEN LET hits == {c \in Escaped : IsPrefix(EscapeOf(c), s)}
         IN  IF hits = {} THEN [ok |-> FALSE, val |-> <<>>]
             ELSE LET c == CHOOSE h \in hits : TRUE
                      rest == DecodeText(SubSeq(s, Len(EscapeOf(c)) + 1, Len(s)))
                  IN  [ok |-> rest.ok, val |-> <<c>> \o rest.val]
    ELSE LET rest == DecodeText(Tail(s))
         IN  [ok |-> rest.ok, val |-> <<Head(s)>> \o rest.val]

DecodeURIComponent(s) == DecodeText(s)

(***************************************************************************)
(* JSON.parse, for the texts the keyword model can reply with: an array    *)
(* of string literals without escapes or commas inside, a single string    *)
(* literal, or something that is not JSON.                                 *)
(***************************************************************************)
IsStringLiteral(s) ==
    /\ Len(s) >= 2
    /\ s[1] = "\""
    /\ s[Len(s)] = "\""
    /\ \A k \in 2..(Len(s) - 1) : s[k] # "\""

Unquote(s) == SubSeq(s, 2, Len(s) - 1)

UnquoteAll(ss) == [k \in 1..Len(ss) |-> Unquote(ss[k])]

\* JSON.parse(x): [ok, isArray, items]
JsonParse(x) ==
    LET s == Trim(Interpolate(x))
    IN  IF Len(s) >= 2 /\ s[1] = "[" /\ s[Len(s)] = "]"
        THEN LET inner == Trim(SubSeq(s, 2, Len(s) - 1))
                 parts == TrimAll(Split(inner, ","))
             IN  IF inner = <<>>
                 THEN [ok |-> TRUE, isArray |-> TRUE, items |-> <<>>]
                 ELSE IF \A k \in 1..Len(parts) : IsStringLiteral(parts[k])
                 THEN [ok |-> TRUE, isArray |-> TRUE, items |-> UnquoteAll(parts)]
                 ELSE [ok |-> FALSE, isArray |-> FALSE, items |-> <<>>]
        ELSE IF IsStringLiteral(s) \/ s = <<"n", "u", "l", "l">>
        THEN [ok |-> TRUE, isArray |-> FALSE, items |-> <<>>]
        ELSE [ok |-> FALSE, isArray |-> FALSE, items |-> <<>>]

(***************************************************************************)
(* The request and the external services: the values a run can meet.       *)
(***************************************************************************)
TextAlphabet == {"a", " ", "%"}

\* the `input` field: absent, a file, or a text (possibly empty)
Inputs ==
    {[kind |-> "absent", text |-> <<>>], [kind |-> "file", text |-> <<>>]}
        \cup {[kind |-> "text", text |-> t] : t \in SeqsUpTo(TextAlphabet, MaxTextLen)}

\* one `message` field, JSON-decoded; role "system" is outside the enum
RawEntries ==
    {[role |-> "user", content |-> <<"h", "i">>],
     [role |-> "assistant", content |-> <<"y", "o">>],
     [role |-> "system", content |-> <<"x">>]}

\* a conversation of two turns
TwoTurns ==
    <<[role |-> "user", content |-> <<"h", "i">>],
      [role |-> "assistant", content |-> <<"y", "o">>]>>

\* the `message` fields of a request, in order; <<>> when the field is absent
MessageFields == SeqsUpTo(RawEntries, MaxHistory) \cup {TwoTurns}

Variants == {"P0", "P1", "P2", "RB", "RS"}

\* revisions that embed the transcript itself
DirectVariants == {"P0", "RS"}

\* revisions with the keyword strategy (the others embed the transcript)
KeywordVariants == {"P1", "P2", "RB"}

\* revisions that answer with synthesized speech
VoiceVariants == {"P1", "P2", "RB"}

\* revisions whose getTranscript calls the speech-to-text service
SttVariants == {"P0", "P1", "RS"}

\* revisions that pass data.message[0].content to extractKeywords
QueryFromHistory == {"P1", "RB"}

\* revisions whose keyword reply is parsed with JSON.parse
JsonKeywordVariants == {"P1"}

\* revisions that test the digest and the reply for empty content
CheckedContent == {"P2", "RB"}

\* revisions whose pipeline runs inside try/catch
CaughtVariants == {"P2"}

\* revisions that report their progress with streamText
StreamVariants == {"RS"}

\* revisions whose location() answers "unknown" when a header is missing
WholeFallback == {"P0", "P1", "RS"}

\* revisions whose location() answers "unknown" for each missing header
FieldFallback == {"P2"}

\* what getTranscript returns for a file where transcription is a placeholder
Placeholder ==
    <<"E", "x", "a", "m", "p", "l", "e", " ", "t", "r", "a", "n", "s", "c",
      "r", "i", "p", "t", " ", "f", "r", "o", "m", " ", "a", "u", "d", "i",
      "o", " ", "f", "i", "l", "e">>

\* what the speech-to-text service can answer
SttReplies ==
    {[kind |-> "raise", text |-> <<>>]}
        \cup {[kind |-> "text", text |-> t] : t \in SeqsUpTo({"a", " "}, MaxSttLen)}

Letters == <<"a", "b", "c", "d", "e", "f", "g", "h", "i">>

Letter(k) == Letters[((k - 1) % Len(Letters)) + 1]

\* the k-th item of a comma-separated keyword reply, in four styles
CsvItem(k, style) ==
    CASE style = "plain"  -> <<Letter(k)>>
      [] style = "padded" -> <<" ", Letter(k), " ", Letter(k + 1), " ">>
      [] style = "same"   -> <<Letter(1)>>
      [] style = "gaps"   -> IF k % 2 = 0 THEN <<>> ELSE <<Letter(k)>>

CsvReply(n, style) == Join([k \in 1..n |-> CsvItem(k, style)], <<",">>)

JsonItem(k) == <<"\"", Letter(k), "\"">>

JsonReply(n, sep) == <<"[">> \o Join([k \in 1..n |-> JsonItem(k)], sep) \o <<"]">>

\* what the keyword model can put in its reply
KeywordContents ==
    {CsvReply(n, style) : n \in 0..MaxReplyItems,
                          style \in {"plain", "padded", "same", "gaps"}}
        \cup {<<",">> \o CsvReply(n, "plain") \o <<",">> : n \in 1..2}
        \cup {JsonReply(n, sep) : n \in 0..MaxReplyItems, sep \in {<<",">>, <<",", " ">>}}
        \cup {<<"\"", "a", "\"">>}

\* the keyword replies met while two requests are served
PairKeywordContents ==
    {CsvReply(2, "plain"), CsvReply(2, "same"), JsonReply(2, <<",">>)}

DigestContents == {<<>>, <<"d", "i", "g">>}

ReplyContents == {<<>>, <<"o", "k">>, <<"%", " ">>, <<LoneSurrogate>>}

\* a chat-completion call: it raises, answers without choices[0].message,
\* or answers with a content that may be null
ChatReplies(contents) ==
    {[kind |-> "raise", content |-> Null], [kind |-> "nochoices", content |-> Null]}
        \cup {[kind |-> "content", content |-> c] : c \in contents \cup {Null}}

\* the stored matches, as the index returns them (best first)
Match1 == [id |-> "1", score |-> 9, hasText |-> TRUE, text |-> <<"s", "1">>]
Match2 == [id |-> "2", score |-> 5, hasText |-> TRUE, text |-> <<"s", "2">>]
Match3 == [id |-> "3", score |-> 2, hasText |-> FALSE, text |-> Null]

IndexConfigs == {"same", "byKey"}

\* x-vercel-ip-city, x-vercel-ip-country-region, x-vercel-ip-country as
\* headersList.get returns them: a text, or null for a missing header
GeoHeaders ==
    {[city |-> <<"c">>, region |-> <<"r">>, country |-> <<"k">>],
     [city |-> Null, region |-> <<"r">>, country |-> <<"k">>]}

Unknown == <<"u", "n", "k", "n", "o", "w", "n">>

\* openai.embeddings.create: the vector is identified by the text embedded
Embedding(text) == text

\* index.query({vector, topK}): at most topK matches, best first
IndexQuery(cfg, vector, topK) ==
    LET stored ==
            IF cfg = "same" THEN <<Match1, Match2>>
            ELSE IF vector # <<>> /\ Head(vector) = "a" THEN <<Match2>>
            ELSE IF vector = <<>> THEN <<>>
            ELSE <<Match1, Match3>>
    IN  Slice(stored, topK)

(***************************************************************************)
(* State.                                                                  *)
(***************************************************************************)
VARIABLES
    variant,     \* the revision of the handler that serves the request
    form,        \* the multipart form of the request: [input, message]
    indexCfg,    \* what the vector index holds during the request
    pc,          \* where the handler is: "start", the pending call, "done"
    transcript,  \* const transcript
    keywords,    \* const extractedKeywords
    allResults,  \* allResults of queryIndexForKeywords
    queryResults,\* const queryResults (direct embedding)
    analyzed,    \* const analyzedResults
    response,    \* const response (the reply text)
    calls,       \* the external calls issued so far, oldest first
    resp,        \* the HTTP response, once the handler has ended
    geo,         \* <<the geolocation headers>> once location() has read them
    textStream,  \* the lines of document's #textStream element
    active,      \* the request that runs (0: the server has one request)
    other,       \* a second request, while the active one runs
    isPlaying,   \* usePlayer: const [isPlaying, setIsPlaying]
    audioContext,\* usePlayer: audioContext.current (0: null)
    source,      \* usePlayer: source.current (0: null)
    contexts,    \* the AudioContext objects created so far
    sources,     \* the AudioBufferSourceNode objects created so far
    plays        \* the calls of play() made so far

env == <<variant, indexCfg>>

\* the state of the endpoint
handlerVars ==
    <<variant, form, indexCfg, pc, transcript, keywords, allResults,
      queryResults, analyzed, response, calls, resp, geo, textStream,
      active, other>>

\* the state of the page's player
playerVars == <<isPlaying, audioContext, source, contexts, sources, plays>>

vars == <<handlerVars, playerVars>>

\* usePlayer(): useState(false), useRef(null), useRef(null)
PlayerInit ==
    /\ isPlaying = FALSE
    /\ audioContext = 0
    /\ source = 0
    /\ contexts = <<>>
    /\ sources = <<>>
    /\ plays = <<>>

\* no response yet
NoResp ==
    [status |-> 0, body |-> "", xTranscript |-> Null, xResponse |-> Null,
     uncaught |-> FALSE]

\* new Response(body, { status })
Plain(status, body) ==
    [status |-> status, body |-> body, xTranscript |-> Null, xResponse |-> Null,
     uncaught |-> FALSE]

\* an exception left POST: the framework answers 500
Uncaught ==
    [status |-> 500, body |-> "", xTranscript |-> Null, xResponse |-> Null,
     uncaught |-> TRUE]

\* no second request
NoRequest == [pc |-> "none"]

\* the request that runs, with everything that belongs to it alone
Running ==
    [form |-> form, pc |-> pc, transcript |-> transcript, keywords |-> keywords,
     allResults |-> allResults, queryResults |-> queryResults,
     analyzed |-> analyzed, response |-> response,
     calls |-> calls, resp |-> resp, geo |-> geo]

\* a request that has not started
Arrived(f) ==
    [form |-> f, pc |-> "start", transcript |-> Null, keywords |-> <<>>,
     allResults |-> <<>>, queryResults |-> <<>>, analyzed |-> Null,
     response |-> Null, calls |-> <<>>, resp |-> NoResp, geo |-> <<>>]

\* the keyword replies of this run
KeywordReplies == IF active = 0 THEN KeywordContents ELSE PairKeywordContents

\* the geolocation headers of this run
HeadersMet ==
    IF active = 0 THEN GeoHeaders
    ELSE {[city |-> Null, region |-> <<"r">>, country |-> <<"k">>]}

\* the handler's local state, as one value
Cur ==
    [pc |-> pc, transcript |-> transcript, keywords |-> keywords,
     allResults |-> allResults, queryResults |-> queryResults,
     analyzed |-> analyzed, response |-> response,
     calls |-> calls, resp |-> resp, geo |-> geo, textStream |-> textStream]

\* the step ends in local state st
Becomes(st) ==
    /\ pc' = st.pc
    /\ transcript' = st.transcript
    /\ keywords' = st.keywords
    /\ allResults' = st.allResults
    /\ queryResults' = st.queryResults
    /\ analyzed' = st.analyzed
    /\ response' = st.response
    /\ calls' = st.calls
    /\ resp' = st.resp
    /\ geo' = st.geo
    /\ textStream' = st.textStream
    /\ UNCHANGED <<env, form, active, other, playerVars>>

(***************************************************************************)
(* Request Decoder.                                                        *)
(***************************************************************************)
\* input: z.union([zfd.text(), zfd.file()]); zfd.text() rejects ""
InputOk(input) ==
    \/ input.kind = "file"
    \/ input.kind = "text" /\ input.text # <<>>

\* z.object({ role: z.enum(["user", "assistant"]), content: z.string() })
EntryOk(e) == e.role \in {"user", "assistant"}

\* a decoder that insists on at least one `message` field
SchemaSuccessNonEmpty(f) ==
    /\ InputOk(f.input)
    /\ f.message # <<>>
    /\ \A k \in 1..Len(f.message) : EntryOk(f.message[k])

\* schema.safeParse(formData).success; zfd.repeatableOfType turns an absent
\* field into the empty array
SchemaSuccess(f) ==
    /\ InputOk(f.input)
    /\ \A k \in 1..Len(f.message) : EntryOk(f.message[k])

\* data.message
DataMessage == form.message

(***************************************************************************)
(* Steps of the handler.                                                   *)
(***************************************************************************)
\* a response that does not end the handler
ReturnAndGoOn(st, r) == [st EXCEPT !.resp = r]

\* return new Response(...)
Return(st, r) == [st EXCEPT !.pc = "done", !.resp = r]

\* throw: caught by the handler's try/catch where there is one
Throw(st) ==
    IF variant \in CaughtVariants
    THEN Return(st, Plain(500, "Internal server error"))
    ELSE Return(st, Uncaught)

\* location(): the text put after "User location is"
Location(g) ==
    IF variant \in WholeFallback
    THEN IF Falsy(g.country) \/ Falsy(g.region) \/ Falsy(g.city)
         THEN Unknown
         ELSE g.city \o <<",", " ">> \o g.region \o <<",", " ">> \o g.country
    ELSE IF variant \in FieldFallback
    THEN (IF Falsy(g.city) THEN Unknown ELSE g.city) \o <<",", " ">>
            \o (IF Falsy(g.region) THEN Unknown ELSE g.region) \o <<",", " ">>
            \o (IF Falsy(g.country) THEN Unknown ELSE g.country)
    ELSE Interpolate(g.city) \o <<",", " ">> \o Interpolate(g.region)
            \o <<",", " ">> \o Interpolate(g.country)

\* the content of the Responder's system message
Persona(g) ==
    <<"You are Asyra", "User location is ">> \o Location(g)
        \o <<".", "The current time is ", "<time()>", ".">>

\* a message list that gives the Responder the newest turn first
MessagesNewestFirst(st, svc, arg) ==
    IF svc = "completion"
    THEN <<[role |-> "system", content |-> Persona(st.geo[1])]>>
            \o [k \in 1..Len(DataMessage) |-> DataMessage[Len(DataMessage) + 1 - k]]
            \o <<[role |-> "user", content |-> arg]>>
    ELSE <<[role |-> "system", content |-> <<svc>>],
           [role |-> "user", content |-> arg]>>

\* the `messages` of a chat call; <<>> for the calls that send none
Messages(st, svc, arg) ==
    CASE svc = "keywords" ->
            <<[role |-> "system", content |-> <<"keyword extraction">>],
              [role |-> "user", content |-> arg]>>
      [] svc = "digest" ->
            <<[role |-> "system", content |-> <<"breaking down query results">>],
              [role |-> "user", content |-> arg]>>
      [] svc = "completion" ->
            <<[role |-> "system", content |-> Persona(st.geo[1])]>>
                \o DataMessage
                \o <<[role |-> "user", content |-> arg]>>
      [] OTHER -> <<>>

\* await <external call>
Issue(st, svc, arg, at) ==
    [st EXCEPT !.calls = Append(@, [svc |-> svc, arg |-> arg, status |-> "pending",
                                    messages |-> Messages(st, svc, arg),
                                    topK |-> IF svc = "query" THEN TopK ELSE 0]),
               !.pc = at]

\* headers(), as location() reads it
ReadHeaders(st, g) == [st EXCEPT !.geo = <<g>>]

\* streamText(content): textStream.textContent += content + "\n"
StreamText(st, content) ==
    IF variant \in StreamVariants
    THEN [st EXCEPT !.textStream = Append(@, Interpolate(content))]
    ELSE st

\* the pending call has returned: "ok"; "empty" (it answered with no content
\* or a blank text); "failed" (it raised, or its answer lacks the expected
\* structure); "notok" (an HTTP status that is no success)
Returned(st, status) == [st EXCEPT !.calls[Len(st.calls)].status = status]

\* the argument of the pending call
PendingArg == calls[Len(calls)].arg

\* the user message of the keyword-extraction call
KeywordPrompt(t) ==
    IF variant \in QueryFromHistory
    THEN <<"Query: ">> \o DataMessage[1].content \o <<"\n", "\n", "Transcript: ">> \o t
    ELSE <<"Transcript: ">> \o t

\* enhancedPrompt
EnhancedPrompt(t, context) ==
    CASE variant \in DirectVariants ->
            t \o <<"\n", "\n", "Additional Context:", "\n">> \o context
      [] variant = "P2" ->
            <<"Query: ">> \o t \o <<"\n", "\n", "Analyzed Context:", "\n">>
                \o Interpolate(context) \o <<". Do not mention the retrieval.">>
      [] OTHER ->
            t \o <<"\n", "\n", "Analyzed Context:", "\n">> \o Interpolate(context)

\* after the transcript: the first call of the Context Retriever
BeginRetrieval(st) ==
    IF variant \in KeywordVariants
    THEN IF variant \in QueryFromHistory /\ DataMessage = <<>>
         THEN Throw(st)   \* data.message[0] is undefined
         ELSE Issue(st, "keywords", KeywordPrompt(st.transcript), "keywords")
    ELSE Issue(StreamText(st, <<"Generating embedding...">>),
               "embed", st.transcript, "embed")

\* a getTranscript that trims the text it is given
GetTranscriptTextTrimmed(input) == Trim(input.text)

\* getTranscript: if (typeof input === "string") return input
GetTranscriptText(input) == input.text

\* if (!transcript) return new Response("Invalid audio", { status: 400 })
AfterTranscript(st, t) ==
    IF Falsy(t)
    THEN Return([st EXCEPT !.transcript = t], Plain(400, "Invalid audio"))
    ELSE BeginRetrieval([st EXCEPT !.transcript = t])

\* snippets in the reverse of the order the index returned them in
SnippetsReversed(matches) ==
    [k \in 1..Len(matches) |->
        [id |-> matches[Len(matches) + 1 - k].id,
         score |-> matches[Len(matches) + 1 - k].score,
         text |-> matches[Len(matches) + 1 - k].text]]

\* results.map((result) => ({ id, score, text: result.metadata?.text }))
Snippets(matches) ==
    [k \in 1..Len(matches) |->
        [id |-> matches[k].id, score |-> matches[k].score, text |-> matches[k].text]]

SnippetTexts(snippets) == [k \in 1..Len(snippets) |-> snippets[k].text]

RECURSIVE StringifySnippets(_)
StringifySnippets(snippets) ==
    IF snippets = <<>> THEN <<>>
    ELSE <<"{id:", Head(snippets).id, "text:">> \o JoinItem(Head(snippets).text)
            \o <<"}">> \o StringifySnippets(Tail(snippets))

RECURSIVE StringifyEntries(_)
StringifyEntries(results) ==
    IF results = <<>> THEN <<>>
    ELSE <<"{keyword:">> \o Head(results).keyword \o <<"results:[">>
            \o StringifySnippets(Head(results).results) \o <<"]}">>
            \o StringifyEntries(Tail(results))

\* JSON.stringify(results)
Stringify(results) == <<"[">> \o StringifyEntries(results) \o <<"]">>

\* a loop that starts the embedding of the next two keywords together
LoopHeadTwoAtOnce(st) ==
    IF Len(st.allResults) + 1 < Len(st.keywords)
    THEN Issue(Issue(st, "embed", st.keywords[Len(st.allResults) + 1], "embed"),
               "embed", st.keywords[Len(st.allResults) + 2], "embed")
    ELSE IF Len(st.allResults) < Len(st.keywords)
    THEN Issue(st, "embed", st.keywords[Len(st.allResults) + 1], "embed")
    ELSE Issue(st, "digest", Stringify(st.allResults), "digest")

\* the for...of loop of queryIndexForKeywords: the next keyword, or the
\* digest call once every keyword has its entry
LoopHead(st) ==
    IF Len(st.allResults) < Len(st.keywords)
    THEN Issue(st, "embed", st.keywords[Len(st.allResults) + 1], "embed")
    ELSE Issue(st, "digest", Stringify(st.allResults), "digest")

\* keywords.slice(0, 5)
CapKeywords(items) == Slice(items, KeywordCap)

\* the parsing of extractKeywords: [ok, keywords]
ParseKeywords(content) ==
    IF variant \in JsonKeywordVariants
    THEN LET j == JsonParse(content)
         IN  [ok |-> j.ok /\ j.isArray, keywords |-> CapKeywords(j.items)]
    ELSE IF Falsy(content) THEN [ok |-> FALSE, keywords |-> <<>>]
    ELSE [ok |-> TRUE, keywords |-> CapKeywords(TrimAll(Split(Trim(content), ",")))]

\* allResults.push in front instead of at the end
PushResultFront(results, keyword, snippets) ==
    <<[keyword |-> keyword, results |-> snippets]>> \o results

\* a result list that keeps one entry per distinct keyword
PushResultOnce(results, keyword, snippets) ==
    IF \E k \in 1..Len(results) : results[k].keyword = keyword
    THEN results
    ELSE Append(results, [keyword |-> keyword, results |-> snippets])

\* allResults.push({ keyword, results })
PushResult(results, keyword, snippets) ==
    Append(results, [keyword |-> keyword, results |-> snippets])

\* a failed embedding that is tried again
EmbedFailedRetry(st) == Issue(Returned(st, "failed"), "embed", PendingArg, "embed")

\* getQueryEmbedding raised or answered without data[0].embedding
EmbedFailed(st) == Throw(Returned(st, "failed"))

\* a failed query that leaves the keyword with no snippets and goes on
QueryFailedFallback(st) ==
    IF variant \in KeywordVariants
    THEN LoopHead([Returned(st, "failed") EXCEPT !.allResults =
                    PushResult(@, st.keywords[Len(st.allResults) + 1], <<>>)])
    ELSE Throw(Returned(st, "failed"))

\* index.query raised or answered with something that is no array: the
\* catch block logs and throws again
QueryFailed(st) == Throw(Returned(st, "failed"))

\* a failure response that still carries the success headers
VoiceFailedWithHeaders(st) ==
    Return(Returned(st, "notok"),
           [status |-> 500, body |-> "Voice synthesis failed",
            xTranscript |-> EncodeURIComponent(st.transcript).val,
            xResponse |-> EncodeURIComponent(st.response).val,
            uncaught |-> FALSE])

\* if (!voice.ok) return new Response("Voice synthesis failed", { status: 500 })
VoiceFailed(st) ==
    Return(Returned(st, "notok"), Plain(500, "Voice synthesis failed"))

\* the headers of the success response
WithHeaders(st, body) ==
    LET xt == EncodeURIComponent(st.transcript)
        xr == EncodeURIComponent(st.response)
    IN  IF xt.ok /\ xr.ok
        THEN Return(st, [status |-> 200, body |-> body, xTranscript |-> xt.val,
                         xResponse |-> xr.val, uncaught |-> FALSE])
        ELSE Throw(st)   \* URIError

(***************************************************************************)
(* Actions: one per resumption of the handler.                             *)
(***************************************************************************)
Init ==
    /\ variant \in Variants
    /\ form \in [input : Inputs, message : MessageFields]
    /\ indexCfg \in IndexConfigs
    /\ pc = "start"
    /\ transcript = Null
    /\ keywords = <<>>
    /\ allResults = <<>>
    /\ queryResults = <<>>
    /\ analyzed = Null
    /\ response = Null
    /\ calls = <<>>
    /\ resp = NoResp
    /\ geo = <<>>
    /\ textStream = <<>>
    /\ active = 0
    /\ other = NoRequest
    /\ PlayerInit

\* POST, from the decoding of the form to the first external call
ReceiveRequest ==
    /\ pc = "start"
    /\ IF ~SchemaSuccess(form)
       THEN Becomes(Return(Cur, Plain(400, "Invalid request")))
       ELSE LET st == StreamText(Cur, <<"Transcribing input...">>)
            IN  IF form.input.kind = "text"
                THEN Becomes(AfterTranscript(st, GetTranscriptText(form.input)))
                ELSE IF variant \in SttVariants
                THEN Becomes(Issue(st, "stt", <<"file">>, "stt"))
                ELSE Becomes(AfterTranscript(st, Placeholder))

\* getTranscript resumes: text.trim() || null, null when the call raised
SttReturn ==
    /\ pc = "stt"
    /\ \E r \in SttReplies :
        LET t == IF r.kind = "raise" \/ Trim(r.text) = <<>> THEN Null ELSE Trim(r.text)
            status == IF r.kind = "raise" THEN "failed"
                      ELSE IF IsBlank(r.text) THEN "empty" ELSE "ok"
        IN  Becomes(AfterTranscript(Returned(Cur, status), t))

\* extractKeywords resumes
KeywordsReturn ==
    /\ pc = "keywords"
    /\ \E r \in ChatReplies(KeywordReplies) :
        IF r.kind # "content"
        THEN Becomes(Throw(Returned(Cur, "failed")))
        ELSE LET p == ParseKeywords(r.content)
                 st == Returned(Cur, IF Falsy(r.content) THEN "empty" ELSE "ok")
             IN  IF p.ok
                 THEN Becomes(LoopHead([st EXCEPT !.keywords = p.keywords]))
                 ELSE Becomes(Throw(st))

\* getQueryEmbedding resumes
EmbedReturn ==
    /\ pc = "embed"
    /\ \E o \in {"raise", "malformed", "ok"} :
        IF o = "ok"
        THEN Becomes(Issue(
                IF variant \in KeywordVariants THEN Returned(Cur, "ok")
                ELSE StreamText(Returned(Cur, "ok"), <<"Querying vector index...">>),
                "query", Embedding(PendingArg), "query"))
        ELSE Becomes(EmbedFailed(Cur))

\* index.query resumes
QueryReturn ==
    /\ pc = "query"
    /\ \E o \in {"raise", "nonarray", "ok"} :
        IF o # "ok"
        THEN Becomes(QueryFailed(Cur))
        ELSE LET snippets == Snippets(IndexQuery(indexCfg, PendingArg, TopK))
                 st == Returned(Cur, "ok")
             IN  IF variant \in KeywordVariants
                 THEN Becomes(LoopHead(
                        [st EXCEPT !.allResults =
                            PushResult(@, st.keywords[Len(st.allResults) + 1], snippets)]))
                 ELSE \E g \in HeadersMet :
                        Becomes(Issue(
                            ReadHeaders(
                                StreamText([st EXCEPT !.queryResults = snippets],
                                           <<"Requesting text completion...">>), g),
                            "completion",
                            EnhancedPrompt(st.transcript,
                                           Join(SnippetTexts(snippets), <<"\n">>)),
                            "completion"))

\* analyzeQueryResults resumes
DigestReturn ==
    /\ pc = "digest"
    /\ \E r \in ChatReplies(DigestContents) :
        IF r.kind # "content"
        THEN Becomes(Throw(Returned(Cur, "failed")))
        ELSE LET st == [Returned(Cur, IF Falsy(r.content) THEN "empty" ELSE "ok")
                            EXCEPT !.analyzed = r.content]
             IN  IF variant \in CheckedContent /\ Falsy(r.content)
                 THEN Becomes(Throw(Returned(Cur, "empty")))
                 ELSE \E g \in HeadersMet :
                        Becomes(Issue(ReadHeaders(st, g), "completion",
                                      EnhancedPrompt(st.transcript, r.content),
                                      "completion"))

\* the Responder's groq.chat.completions.create resumes
CompletionReturn ==
    /\ pc = "completion"
    /\ \E r \in ChatReplies(ReplyContents) :
        IF r.kind # "content"
        THEN Becomes(Throw(Returned(Cur, "failed")))
        ELSE LET st == [Returned(Cur, IF Falsy(r.content) THEN "empty" ELSE "ok")
                            EXCEPT !.response = r.content]
             IN  IF variant \in CheckedContent /\ Falsy(r.content)
                 THEN Becomes(Throw(Returned(Cur, "empty")))
                 ELSE IF variant \in VoiceVariants
                 THEN Becomes(Issue(st, "tts", Interpolate(r.content), "tts"))
                 ELSE Becomes(WithHeaders(
                        StreamText(StreamText(st, <<"Text completion received: ">>),
                                   r.content),
                        "reply"))

\* fetch("https://api.cartesia.ai/tts/bytes") resumes
TtsReturn ==
    /\ pc = "tts"
    /\ \E o \in {"raise", "notok", "ok"} :
        CASE o = "raise" -> Becomes(Throw(Returned(Cur, "failed")))
          [] o = "notok" -> Becomes(VoiceFailed(Cur))
          [] o = "ok"    -> Becomes(WithHeaders(Returned(Cur, "ok"), "voice"))

Next ==
    \/ ReceiveRequest
    \/ SttReturn
    \/ KeywordsReturn
    \/ EmbedReturn
    \/ QueryReturn
    \/ DigestReturn
    \/ CompletionReturn
    \/ TtsReturn

Spec == Init /\ [][Next]_vars

\* the requests of the runs checked for termination
FairForms ==
    {f \in [input : Inputs, message : MessageFields] :
        /\ f.input.kind = "text" => f.input.text = <<"a">>
        /\ f.message = <<[role |-> "user", content |-> <<"h", "i">>]>>}

InitFair ==
    /\ Init
    /\ form \in FairForms
    /\ indexCfg = "byKey"

\* every external call returns or raises, and the runtime resumes the
\* handler with the outcome
FairSpec == InitFair /\ [][Next]_vars /\ WF_vars(Next)

(***************************************************************************)
(* Two requests on one server.  JavaScript runs one handler at a time; at  *)
(* an await the event loop may go on with the other request.  The module-  *)
(* level objects (the clients, the index, the page's log) are the same for *)
(* both; everything declared inside POST and its helpers is per request.   *)
(***************************************************************************)
\* the forms of the two requests
PairForms ==
    {[input |-> [kind |-> "text", text |-> <<"a">>],
      message |-> <<[role |-> "user", content |-> <<"h", "i">>]>>],
     [input |-> [kind |-> "file", text |-> <<>>], message |-> <<>>]}

\* the revisions met while two requests are served
PairVariants == {"P2", "RS"}

\* the event loop resumes o with a module-level result list
ResumeSharedResults(o) ==
    /\ form' = o.form
    /\ pc' = o.pc
    /\ transcript' = o.transcript
    /\ keywords' = o.keywords
    /\ allResults' = allResults
    /\ queryResults' = o.queryResults
    /\ analyzed' = o.analyzed
    /\ response' = o.response
    /\ calls' = o.calls
    /\ resp' = o.resp
    /\ geo' = o.geo

\* the event loop resumes o: its locals are those of its own invocation
Resume(o) ==
    /\ form' = o.form
    /\ pc' = o.pc
    /\ transcript' = o.transcript
    /\ keywords' = o.keywords
    /\ allResults' = o.allResults
    /\ queryResults' = o.queryResults
    /\ analyzed' = o.analyzed
    /\ response' = o.response
    /\ calls' = o.calls
    /\ resp' = o.resp
    /\ geo' = o.geo

\* the running handler is at an await (or has ended, or has not started)
\* and the event loop turns to the other request
Switch ==
    /\ active # 0
    /\ other.pc # "done"
    /\ Resume(other)
    /\ other' = Running
    /\ active' = 3 - active
    /\ UNCHANGED <<env, textStream, playerVars>>

InitPair ==
    /\ variant \in PairVariants
    /\ indexCfg \in IndexConfigs
    /\ form \in PairForms
    /\ \E f \in PairForms : other = Arrived(f)
    /\ active = 1
    /\ pc = "start"
    /\ transcript = Null
    /\ keywords = <<>>
    /\ allResults = <<>>
    /\ queryResults = <<>>
    /\ analyzed = Null
    /\ response = Null
    /\ calls = <<>>
    /\ resp = NoResp
    /\ geo = <<>>
    /\ textStream = <<>>
    /\ PlayerInit

NextPair ==
    \/ Next
    \/ Switch

SpecPair == InitPair /\ [][NextPair]_vars

(***************************************************************************)
(* Vocabulary of the properties.                                           *)
(***************************************************************************)
Done == pc = "done"

\* the positions of the calls to service svc
CallsTo(svc) == {k \in 1..Len(calls) : calls[k].svc = svc}

\* the positions of the calls that ended with status
CallsEnded(svc, status) == {k \in CallsTo(svc) : calls[k].status = status}

\* a call that raised, answered without the expected structure, or answered
\* with an HTTP status that is no success
IsFailure(status) == status \in {"failed", "notok"}

\* the request passed the decoder
WellFormed == SchemaSuccess(form)

Succeeded == Done /\ resp.status = 200

(***************************************************************************)
(* C1: in the keyword strategy, a failed index query for any one keyword   *)
(* ends the request with HTTP 500, and neither the digest call nor the     *)
(* Responder's chat-completion call is made in that request.               *)
(***************************************************************************)
C1_FailFast ==
    (variant \in KeywordVariants /\ CallsEnded("query", "failed") # {})
        => /\ Done
           /\ resp.status = 500
           /\ CallsTo("digest") = {}
           /\ CallsTo("completion") = {}
           /\ CallsTo("tts") = {}

\* the query of the second keyword failed after the first one succeeded
C1_Witness ==
    /\ variant \in KeywordVariants
    /\ CallsEnded("query", "failed") # {}
    /\ Len(allResults) >= 1
    /\ resp.status = 500

(***************************************************************************)
(* C2: when the speech-to-text call raises or returns a text that is empty *)
(* after trimming, the endpoint answers 400 "Invalid audio" and that call  *)
(* is the only external call of the request.                               *)
(***************************************************************************)
C2_InvalidAudio ==
    (form.input.kind = "file"
        /\ (CallsEnded("stt", "failed") # {} \/ CallsEnded("stt", "empty") # {}))
        => /\ Done
           /\ resp = Plain(400, "Invalid audio")
           /\ Len(calls) = 1

\* the service answered with blanks only
C2_Witness ==
    /\ form.input.kind = "file"
    /\ CallsEnded("stt", "empty") # {}
    /\ resp.status = 400
    /\ resp.body = "Invalid audio"

(***************************************************************************)
(* C3: when the Responder's chat-completion call returns empty or missing  *)
(* content, the request fails with HTTP 500: no HTTP 200 is returned and   *)
(* no text-to-speech call is made.                                         *)
(***************************************************************************)
C3_EmptyReplyFails ==
    CallsEnded("completion", "empty") # {}
        => /\ Done
           /\ resp.status = 500
           /\ CallsTo("tts") = {}

(***************************************************************************)
(* C4: a well-formed request with a text input and no message entries,     *)
(* all of whose external calls succeed with non-empty results, ends with   *)
(* HTTP 200 and a non-empty X-Response header.                             *)
(***************************************************************************)
C4_EmptyHistoryReplies ==
    (/\ Done
     /\ WellFormed
     /\ form.input.kind = "text"
     /\ form.message = <<>>
     /\ \A k \in 1..Len(calls) : calls[k].status = "ok"
     /\ \A k \in 1..Len(response) : response[k] # LoneSurrogate)
        => /\ resp.status = 200
           /\ resp.xResponse # Null
           /\ resp.xResponse # <<>>

(***************************************************************************)
(* C5 as claimed: a request without a message field is rejected with 400   *)
(* "Invalid request" and no external call.                                 *)
(***************************************************************************)
C5_NoMessageRejected ==
    (form.message = <<>> /\ pc # "start")
        => /\ resp = Plain(400, "Invalid request")
           /\ calls = <<>>

(***************************************************************************)
(* C5, amended: the decoder rejects a request, with 400 "Invalid request"  *)
(* and no external call, exactly when the input field is absent or empty   *)
(* or a message entry has a role outside {user, assistant}; a request      *)
(* without a message field is decoded with an empty history.               *)
(***************************************************************************)
C5_DecoderRejects ==
    pc # "start"
        => /\ (resp = Plain(400, "Invalid request"))
                <=> (\/ form.input.kind = "absent"
                     \/ form.input.kind = "text" /\ form.input.text = <<>>
                     \/ \E k \in 1..Len(form.message) :
                            form.message[k].role \notin {"user", "assistant"})
           /\ (resp = Plain(400, "Invalid request") => calls = <<>>)

\* a request without a message field went past the decoder
C5_Witness ==
    /\ form.message = <<>>
    /\ form.input.kind = "text"
    /\ Done
    /\ resp.status = 200

C7_KeywordOrder ==
    (variant \in KeywordVariants /\ Succeeded)
        => /\ Len(keywords) <= 5
           /\ Len(allResults) = Len(keywords)
           /\ \A k \in 1..Len(keywords) : allResults[k].keyword = keywords[k]

\* five keywords, the first two different
C7_Witness ==
    /\ variant \in KeywordVariants
    /\ Succeeded
    /\ Len(keywords) = 5
    /\ keywords[1] # keywords[2]
    /\ Len(allResults) = 5

(***************************************************************************)
(* C8: for a well-formed request with a text input, the transcript is the  *)
(* input text exactly, X-Transcript decodes to it, and no speech-to-text   *)
(* call is made.                                                           *)
(***************************************************************************)
C8_PassThrough ==
    (WellFormed /\ form.input.kind = "text" /\ pc # "start")
        => /\ transcript = form.input.text
           /\ CallsTo("stt") = {}
           /\ (Succeeded =>
                 DecodeURIComponent(resp.xTranscript)
                    = [ok |-> TRUE, val |-> form.input.text])

\* a text of blanks went through unchanged
C8_Witness ==
    /\ form.input.kind = "text"
    /\ IsBlank(form.input.text)
    /\ Succeeded
    /\ resp.xTranscript = <<"%", "2", "0">>

(***************************************************************************)
(* C9: in every run that ends with HTTP 200, X-Transcript percent-decodes  *)
(* to the transcript and X-Response percent-decodes to the reply text of   *)
(* the chat-completion stage.                                              *)
(***************************************************************************)
C9_HeaderRoundTrip ==
    Succeeded
        => /\ DecodeURIComponent(resp.xTranscript) = [ok |-> TRUE, val |-> transcript]
           /\ DecodeURIComponent(resp.xResponse) = [ok |-> TRUE, val |-> response]

C11_AllOrNothing ==
    /\ Succeeded
        => /\ WellFormed
           /\ ~Falsy(transcript)
           /\ \A k \in 1..Len(calls) : calls[k].status = "ok"
           /\ CallsTo("completion") # {}
           /\ ~Falsy(response)
           /\ (variant \in KeywordVariants => CallsTo("digest") # {})
           /\ (variant \in VoiceVariants => CallsEnded("tts", "ok") # {})
    /\ (Done /\ resp.status # 200) => resp.body \notin {"reply", "voice"}

(***************************************************************************)
(* Vocabulary for two requests.                                            *)
(***************************************************************************)
\* request i of the two
Request(i) == IF active = i THEN Running ELSE other

\* the number of embedding calls among the first k calls of request L
EmbedsUpTo(L, k) == Cardinality({j \in 1..k : L.calls[j].svc = "embed"})

\* the keyword prompt that request L builds from its own form and transcript
OwnKeywordPrompt(L) ==
    IF variant \in QueryFromHistory
    THEN <<"Query: ">> \o L.form.message[1].content
            \o <<"\n", "\n", "Transcript: ">> \o L.transcript
    ELSE <<"Transcript: ">> \o L.transcript

\* the context that request L gives the Responder
OwnContext(L) ==
    IF variant \in KeywordVariants THEN L.analyzed
    ELSE Join(SnippetTexts(L.queryResults), <<"\n">>)

\* every call of request L and its response are made of L's own form,
\* transcript, keywords, results and replies
OwnRun(L) ==
    /\ (L.pc # "start" /\ SchemaSuccess(L.form) /\ L.form.input.kind = "text")
            => L.transcript = L.form.input.text
    /\ Len(L.allResults) <= Len(L.keywords)
    /\ \A k \in 1..Len(L.allResults) :
            L.allResults[k] =
                [keyword |-> L.keywords[k],
                 results |-> Snippets(IndexQuery(indexCfg, Embedding(L.keywords[k]), TopK))]
    /\ \A k \in 1..Len(L.calls) :
        LET c == L.calls[k]
        IN  CASE c.svc = "stt" -> k = 1 /\ L.form.input.kind = "file"
              [] c.svc = "keywords" -> c.arg = OwnKeywordPrompt(L)
              [] c.svc = "embed" ->
                    c.arg = IF variant \in KeywordVariants
                            THEN L.keywords[EmbedsUpTo(L, k)]
                            ELSE L.transcript
              [] c.svc = "query" -> k > 1 /\ c.arg = Embedding(L.calls[k - 1].arg)
              [] c.svc = "digest" -> c.arg = Stringify(L.allResults)
              [] c.svc = "completion" ->
                    c.messages =
                        <<[role |-> "system", content |-> Persona(L.geo[1])]>>
                            \o L.form.message
                            \o <<[role |-> "user",
                                  content |-> EnhancedPrompt(L.transcript, OwnContext(L))]>>
              [] c.svc = "tts" -> c.arg = Interpolate(L.response)
    /\ L.resp.status = 200
            => /\ L.resp.xTranscript = EncodeURIComponent(L.transcript).val
               /\ L.resp.xResponse = EncodeURIComponent(L.response).val

Failed == Done /\ resp.status \in {400, 500}

TextReplied ==
    Done /\ resp.status = 200 /\ resp.body = "reply" /\ variant \notin VoiceVariants

VoiceReplied ==
    Done /\ resp.status = 200 /\ resp.body = "voice" /\ variant \in VoiceVariants

(***************************************************************************)
(* C13: if every external call returns or raises, every request reaches a  *)
(* terminal state; a request that has ended is in exactly one of Failed,   *)
(* TextReplied and VoiceReplied, and nothing happens after it has ended:   *)
(* no step is taken and no call is issued.                                 *)
(***************************************************************************)
C13_Terminates ==
    /\ <>Done
    /\ [](Done => /\ Failed \/ TextReplied \/ VoiceReplied
                  /\ ~(Failed /\ (TextReplied \/ VoiceReplied))
                  /\ ~(TextReplied /\ VoiceReplied)
                  /\ \A k \in 1..Len(calls) : calls[k].status # "pending")
    /\ [][Done => UNCHANGED vars]_vars

\* a voice reply after the longest pipeline: five keywords, fourteen calls
C13_Witness ==
    /\ VoiceReplied
    /\ Len(calls) = 14
    /\ CallsTo("tts") = {14}

\* the calls of the request that have not returned yet
InFlight == {k \in 1..Len(calls) : calls[k].status = "pending"}

(***************************************************************************)
(* C14: at most one external call of a request is in flight: a call is     *)
(* issued only when every earlier call has returned.  In the keyword loop  *)
(* the embedding call of keyword i+1 comes right after the index query of  *)
(* keyword i, and that query has returned.                                 *)
(***************************************************************************)
C14_OneInFlight ==
    /\ Cardinality(InFlight) <= 1
    /\ InFlight \subseteq {Len(calls)}
    /\ variant \in KeywordVariants =>
        \A k \in CallsTo("embed") :
            LET i == Cardinality({j \in CallsTo("embed") : j <= k})
            IN  i > 1 => /\ calls[k - 1].svc = "query"
                         /\ calls[k - 1].status = "ok"
                         /\ calls[k - 1].arg = Embedding(keywords[i - 1])
                         /\ Len(allResults) >= i - 1

\* the embedding of the third keyword is in flight, two queries have returned
C14_Witness ==
    /\ variant \in KeywordVariants
    /\ pc = "embed"
    /\ InFlight = {6}
    /\ calls[6].arg = keywords[3]
    /\ Cardinality(CallsEnded("query", "ok")) = 2

\* the place of a service in the pipeline
Stage(svc) ==
    CASE svc = "stt" -> 1
      [] svc = "keywords" -> 2
      [] svc \in {"embed", "query"} -> 3
      [] svc = "digest" -> 4
      [] svc = "completion" -> 5
      [] svc = "tts" -> 6

(***************************************************************************)
(* C15: the calls of a request follow the pipeline: speech-to-text, then   *)
(* keyword extraction, then embedding and index query (per keyword, each   *)
(* query right after its embedding), then the digest, then the Responder's *)
(* completion, then text-to-speech; and a call is issued only after every  *)
(* earlier call has succeeded with a usable result, so that after a        *)
(* failed stage no later call is made.                                     *)
(***************************************************************************)
C15_PipelineOrder ==
    /\ \A j, k \in 1..Len(calls) :
            j < k => Stage(calls[j].svc) <= Stage(calls[k].svc)
    /\ \A k \in CallsTo("query") : k > 1 /\ calls[k - 1].svc = "embed"
    /\ \A k \in 1..Len(calls) :
            /\ calls[k].svc = "embed" /\ variant \in KeywordVariants
                    => CallsTo("keywords") # {}
            /\ calls[k].svc = "digest" => CallsTo("keywords") # {}
            /\ calls[k].svc = "completion"
                    => IF variant \in KeywordVariants
                       THEN CallsTo("digest") # {}
                       ELSE CallsTo("query") # {}
            /\ calls[k].svc = "tts" => CallsTo("completion") # {}
    /\ \A k \in 1..(Len(calls) - 1) : calls[k].status = "ok"
    /\ (\E k \in 1..Len(calls) : calls[k].svc # "stt") => ~Falsy(transcript)

(***************************************************************************)
(* C16: the Responder's chat-completion call is made at most once in a     *)
(* request, exactly once in a request that succeeds, and its message list  *)
(* is: one system message with the persona, then the request's message     *)
(* entries as they were decoded, in their order, then one user message     *)
(* (the enhanced prompt).                                                  *)
(***************************************************************************)
C16_ResponderMessages ==
    /\ Cardinality(CallsTo("completion")) <= 1
    /\ Succeeded => Cardinality(CallsTo("completion")) = 1
    /\ \A k \in CallsTo("completion") :
        LET m == calls[k].messages
        IN  /\ Len(m) = Len(form.message) + 2
            /\ m[1] = [role |-> "system", content |-> Persona(geo[1])]
            /\ SubSeq(m, 2, Len(m) - 1) = form.message
            /\ m[Len(m)] = [role |-> "user", content |-> calls[k].arg]
            /\ \A j \in 2..Len(m) : m[j].role \in {"user", "assistant"}

\* a conversation of two turns reached the Responder, oldest turn first
C16_Witness ==
    /\ Succeeded
    /\ form.message = TwoTurns
    /\ \E k \in CallsTo("completion") :
            /\ Len(calls[k].messages) = 4
            /\ calls[k].messages[2].role = "user"
            /\ calls[k].messages[3].role = "assistant"

\* text sub stands in text s at position i
Occurs(sub, s, i) ==
    /\ i >= 1
    /\ i + Len(sub) - 1 <= Len(s)
    /\ SubSeq(s, i, i + Len(sub) - 1) = sub

\* s contains first and, after it, second
Follows(first, second, s) ==
    \E i \in 1..(Len(s) + 1) :
        /\ Occurs(first, s, i)
        /\ \E j \in (i + Len(first))..(Len(s) + 1) : Occurs(second, s, j)

\* the texts of the matches the index returns for the transcript, in the
\* order of the return, one per line
ReturnedTexts ==
    LET matches == IndexQuery(indexCfg, Embedding(transcript), TopK)
    IN  Join([k \in 1..Len(matches) |-> matches[k].text], <<"\n">>)

(***************************************************************************)
(* C17: the last message of the Responder's call is a user message that    *)
(* contains the transcript and, after it, the retrieved context: in the    *)
(* direct-embedding strategy the texts of the snippets in the order the    *)
(* index returned them, in the keyword strategy the digest.                *)
(***************************************************************************)
C17_UserMessage ==
    \A k \in CallsTo("completion") :
        LET m == calls[k].messages
            u == m[Len(m)]
        IN  /\ u.role = "user"
            /\ Follows(transcript,
                       IF variant \in KeywordVariants
                       THEN Interpolate(analyzed) ELSE ReturnedTexts,
                       u.content)

\* the direct strategy put two snippets after the transcript, best first
C17_Witness ==
    /\ variant \in DirectVariants
    /\ indexCfg = "same"
    /\ \E k \in CallsTo("completion") :
          calls[k].messages[Len(calls[k].messages)].content =
              <<"a", "\n", "\n", "Additional Context:", "\n",
                "s", "1", "\n", "s", "2">>

\* the calls to the embedding service and to the index, oldest first
EmbedCalls == SelectSeq(calls, LAMBDA c : c.svc = "embed")

QueryCalls == SelectSeq(calls, LAMBDA c : c.svc = "query")

(***************************************************************************)
(* C18: in the keyword strategy the result list has one entry for every    *)
(* index query that has returned; and once retrieval has succeeded (the    *)
(* digest call is issued) there were exactly one embedding call and one    *)
(* index query with topK = 5 for each extracted keyword, in the order of   *)
(* the keywords, and the list has exactly one entry per keyword, holding   *)
(* the snippets returned for that keyword: equal keywords and equal        *)
(* snippet lists give separate entries, and the digest call receives them  *)
(* all.                                                                    *)
(***************************************************************************)
C18_OneEntryPerKeyword ==
    variant \in KeywordVariants =>
        /\ Len(allResults) = Cardinality(CallsEnded("query", "ok"))
        /\ \A k \in CallsTo("query") : calls[k].topK = 5
        /\ CallsTo("digest") # {} =>
            /\ Len(EmbedCalls) = Len(keywords)
            /\ Len(QueryCalls) = Len(keywords)
            /\ Len(allResults) = Len(keywords)
            /\ \A i \in 1..Len(keywords) :
                /\ EmbedCalls[i].arg = keywords[i]
                /\ QueryCalls[i].arg = Embedding(keywords[i])
                /\ QueryCalls[i].status = "ok"
                /\ allResults[i] =
                     [keyword |-> keywords[i],
                      results |-> Snippets(IndexQuery(indexCfg,
                                                      Embedding(keywords[i]), 5))]
            /\ \A k \in CallsTo("digest") : calls[k].arg = Stringify(allResults)

\* three equal keywords gave three equal entries, all sent to the digest
C18_Witness ==
    /\ variant \in KeywordVariants
    /\ CallsTo("digest") # {}
    /\ Len(keywords) = 3
    /\ keywords[1] = keywords[2]
    /\ keywords[2] = keywords[3]
    /\ Len(allResults) = 3
    /\ allResults[1] = allResults[3]
    /\ Len(QueryCalls) = 3

(***************************************************************************)
(* C19: in the keyword strategy the digest is made by one chat call that   *)
(* receives all per-keyword results; when that call raises, answers        *)
(* without a message, or answers with empty or missing content, the        *)
(* request ends with HTTP 500 and the Responder's chat-completion call is  *)
(* not made.                                                               *)
(***************************************************************************)
C19_DigestFailureIsFatal ==
    variant \in KeywordVariants =>
        /\ Cardinality(CallsTo("digest")) <= 1
        /\ \A k \in CallsTo("digest") :
                /\ calls[k].arg = Stringify(allResults)
                /\ Len(allResults) = Len(keywords)
        /\ (CallsEnded("digest", "failed") # {} \/ CallsEnded("digest", "empty") # {})
                => /\ Done
                   /\ resp.status = 500
                   /\ CallsTo("completion") = {}

\* the geolocation headers that location() read
HeadersRead == geo[1]

\* a header of the three is missing
HeaderMissing ==
    Falsy(HeadersRead.city) \/ Falsy(HeadersRead.region) \/ Falsy(HeadersRead.country)

\* the persona with the given location text
PersonaWith(text) ==
    <<"You are Asyra", "User location is ">> \o text
        \o <<".", "The current time is ", "<time()>", ".">>

\* the location text with "unknown" in the place of each missing header
UnknownPerHeader ==
    (IF Falsy(HeadersRead.city) THEN Unknown ELSE HeadersRead.city) \o <<",", " ">>
        \o (IF Falsy(HeadersRead.region) THEN Unknown ELSE HeadersRead.region)
        \o <<",", " ">>
        \o (IF Falsy(HeadersRead.country) THEN Unknown ELSE HeadersRead.country)

(***************************************************************************)
(* C20: when the city, region or country header of the request is missing, *)
(* the location text in the persona of the Responder's call is the         *)
(* fallback "unknown" (for the whole location, or in the place of each     *)
(* missing header), and never a text made from the missing value; a        *)
(* request whose headers are missing gets its Responder call and its       *)
(* status like any other.                                                  *)
(***************************************************************************)
C20_LocationFallback ==
    \A k \in CallsTo("completion") :
        /\ geo # <<>>
        /\ HeaderMissing =>
            \/ calls[k].messages[1].content = PersonaWith(Unknown)
            \/ calls[k].messages[1].content = PersonaWith(UnknownPerHeader)
        /\ calls[k].arg = EnhancedPrompt(transcript,
                            IF variant \in KeywordVariants THEN analyzed
                            ELSE Join(SnippetTexts(queryResults), <<"\n">>))

(***************************************************************************)
(* usePlayer: the player of the page.  A call of play() runs to its first  *)
(* await, each reader.read() resumes it, and the part after the last read  *)
(* (lines 23-52) has no await.  The ended event of a source is a task of   *)
(* its own, dispatched some time after the source was stopped or played    *)
(* to its end.                                                             *)
(***************************************************************************)
MaxPlays == 2

\* Float32Array.BYTES_PER_ELEMENT
SampleBytes == 4

\* the streams play() is given, as the byte lengths of their chunks: no
\* chunk, half a sample, one sample, one sample in two chunks
Streams == {<<>>, <<2>>, <<4>>, <<2, 2>>}

\* chunks.reduce((acc, chunk) => acc + chunk.length, 0)
RECURSIVE TotalLength(_)
TotalLength(chunks) ==
    IF chunks = <<>> THEN 0 ELSE Head(chunks) + TotalLength(Tail(chunks))

\* who called stop(): play() number k, the page, or the onended of source s
NoOne == [kind |-> "none", id |-> 0]

ByPlay(k) == [kind |-> "play", id |-> k]

ByUser == [kind |-> "user", id |-> 0]

ByEnded(s) == [kind |-> "ended", id |-> s]

\* the refs and the state of the hook, with the objects they point to
Player ==
    [isPlaying |-> isPlaying, audioContext |-> audioContext,
     source |-> source, contexts |-> contexts, sources |-> sources]

playerRefs == <<isPlaying, audioContext, source, contexts, sources>>

SetPlayer(p) ==
    /\ isPlaying' = p.isPlaying
    /\ audioContext' = p.audioContext
    /\ source' = p.source
    /\ contexts' = p.contexts
    /\ sources' = p.sources

\* a stop() that closes the context and keeps the reference to it
StopKeepsContext(p, who) ==
    [p EXCEPT
        !.sources =
            IF p.source # 0
            THEN [@ EXCEPT ![p.source] =
                    [@ EXCEPT !.state = IF @ = "playing" THEN "stopped" ELSE @,
                              !.by = IF p.sources[p.source].state = "playing"
                                     THEN who ELSE @,
                              !.connected = FALSE]]
            ELSE @,
        !.contexts =
            IF p.audioContext # 0
            THEN [@ EXCEPT ![p.audioContext] =
                    [@ EXCEPT !.state = "closed",
                              !.by = IF p.contexts[p.audioContext].state = "running"
                                     THEN who ELSE @]]
            ELSE @,
        !.isPlaying = FALSE]

\* function stop(): source.current.stop() and disconnect() when there is a
\* source, audioContext.current?.close(), audioContext.current = null,
\* setIsPlaying(false).  stop() on a source that was started never throws;
\* on one that already stopped or ended it changes nothing.
Stop(p, who) ==
    [p EXCEPT
        !.sources =
            IF p.source # 0
            THEN [@ EXCEPT ![p.source] =
                    [@ EXCEPT !.state = IF @ = "playing" THEN "stopped" ELSE @,
                              !.by = IF p.sources[p.source].state = "playing"
                                     THEN who ELSE @,
                              !.connected = FALSE]]
            ELSE @,
        !.contexts =
            IF p.audioContext # 0
            THEN [@ EXCEPT ![p.audioContext] =
                    [@ EXCEPT !.state = "closed",
                              !.by = IF p.contexts[p.audioContext].state = "running"
                                     THEN who ELSE @]]
            ELSE @,
        !.audioContext = 0,
        !.isPlaying = FALSE]

\* play(stream, callback), to its first await: stop(), new AudioContext,
\* stream.getReader(), reader.read()
Play ==
    /\ Len(plays) < MaxPlays
    /\ \E stream \in Streams :
        LET k == Len(plays) + 1
            p == Stop(Player, ByPlay(k))
            c == Len(p.contexts) + 1
        IN  /\ SetPlayer([p EXCEPT
                    !.contexts = Append(@, [play |-> k, state |-> "running",
                                            by |-> NoOne]),
                    !.audioContext = c])
            /\ plays' = Append(plays, [stream |-> stream, read |-> 0,
                                       pc |-> "reading", error |-> "none",
                                       src |-> 0, called |-> 0])
    /\ UNCHANGED handlerVars

\* an exception leaves play(): the promise it returned is rejected
Fails(k, error) ==
    /\ plays' = [plays EXCEPT ![k].pc = "failed", ![k].error = error]
    /\ UNCHANGED playerRefs

\* lines 43-52: createBufferSource() on the context audioContext.current
\* names now, connect, onended, start(), setIsPlaying(true)
Starts(k) ==
    LET s == Len(sources) + 1
    IN  /\ sources' = Append(sources, [ctx |-> audioContext, play |-> k,
                                       state |-> "playing", by |-> NoOne,
                                       connected |-> TRUE, fired |-> FALSE])
        /\ source' = s
        /\ isPlaying' = TRUE
        /\ plays' = [plays EXCEPT ![k].pc = "started", ![k].src = s]
        /\ UNCHANGED <<audioContext, contexts>>

\* lines 23-52, after the read that reported done: new Float32Array(buffer)
\* throws a RangeError unless the byte length is a multiple of 4,
\* audioContext.current.createBuffer throws a TypeError on null and a
\* NotSupportedError for a length of 0
Assemble(k) ==
    LET totalLength == TotalLength(plays[k].stream)
    IN  IF totalLength % SampleBytes # 0 THEN Fails(k, "RangeError")
        ELSE IF audioContext = 0 THEN Fails(k, "TypeError")
        ELSE IF totalLength \div SampleBytes = 0
             THEN Fails(k, "NotSupportedError")
        ELSE Starts(k)

\* await reader.read() resumes play() number k
ReadReturn(k) ==
    /\ plays[k].pc = "reading"
    /\ IF plays[k].read < Len(plays[k].stream)
       THEN /\ plays' = [plays EXCEPT ![k].read = @ + 1]
            /\ UNCHANGED playerRefs
       ELSE Assemble(k)
    /\ UNCHANGED handlerVars

\* the page calls stop()
UserStop ==
    /\ SetPlayer(Stop(Player, ByUser))
    /\ UNCHANGED <<plays, handlerVars>>

\* a source plays its buffer to the end: its ended event is queued
NaturalEnd(s) ==
    /\ sources[s].state = "playing"
    /\ contexts[sources[s].ctx].state = "running"
    /\ sources' = [sources EXCEPT ![s].state = "finished"]
    /\ UNCHANGED <<isPlaying, audioContext, source, contexts, plays,
                   handlerVars>>

\* an onended that calls the callback of the play() made last
CallbackOfLatest(ps, s) ==
    [ps EXCEPT ![Len(ps)].called = @ + 1]

\* callback(), the one the play() that created source s was given
Callback(ps, s) ==
    [ps EXCEPT ![sources[s].play].called = @ + 1]

\* source.onended = () => { stop(); callback(); }
Ended(s) ==
    /\ sources[s].state # "playing"
    /\ ~sources[s].fired
    /\ SetPlayer(Stop([Player EXCEPT !.sources[s].fired = TRUE], ByEnded(s)))
    /\ plays' = Callback(plays, s)
    /\ UNCHANGED handlerVars

\* the page alone: the endpoint is not called
InitPlayer ==
    /\ variant = "P0"
    /\ form = [input |-> [kind |-> "absent", text |-> <<>>], message |-> <<>>]
    /\ indexCfg = "byKey"
    /\ pc = "start"
    /\ transcript = Null
    /\ keywords = <<>>
    /\ allResults = <<>>
    /\ queryResults = <<>>
    /\ analyzed = Null
    /\ response = Null
    /\ calls = <<>>
    /\ resp = NoResp
    /\ geo = <<>>
    /\ textStream = <<>>
    /\ active = 0
    /\ other = NoRequest
    /\ PlayerInit

NextPlayer ==
    \/ Play
    \/ \E k \in 1..Len(plays) : ReadReturn(k)
    \/ UserStop
    \/ \E s \in 1..Len(sources) : NaturalEnd(s)
    \/ \E s \in 1..Len(sources) : Ended(s)

SpecPlayer == InitPlayer /\ [][NextPlayer]_vars

\* the sources that the stop() at the start of play() number k stopped while
\* they were playing: the earlier playbacks that k interrupted
Interrupted(k) ==
    {s \in 1..Len(sources) : sources[s].by = ByPlay(k)}

(***************************************************************************)
(* C21: when play() is called while an earlier playback is active, the     *)
(* onended handler of that earlier playback, fired because the new play()  *)
(* stopped it, never stops the source of the new playback and never closes *)
(* the AudioContext the new play() created, so that the new play() is not  *)
(* left with audioContext.current = null before its source.start().        *)
(***************************************************************************)
C21_NewPlaybackUndisturbed ==
    \A k \in 1..Len(plays) : \A s \in Interrupted(k) :
        /\ \A t \in 1..Len(sources) :
                sources[t].play = k => sources[t].by # ByEnded(s)
        /\ \A c \in 1..Len(contexts) :
                contexts[c].play = k => contexts[c].by # ByEnded(s)
        /\ ~(plays[k].pc = "failed" /\ plays[k].error = "TypeError"
                /\ \E c \in 1..Len(contexts) :
                        contexts[c].play = k /\ contexts[c].by = ByEnded(s))

(***************************************************************************)
(* C22: the callback given to a call of play() is invoked at most once,    *)
(* and only when the source that this same call created has ended; the     *)
(* ended event of one playback never invokes the callback of another call  *)
(* of play(), in particular not of a later one that is still reading.      *)
(***************************************************************************)
C22_CallbackOncePerPlay ==
    /\ \A k \in 1..Len(plays) :
        /\ plays[k].called <= 1
        /\ plays[k].called = 1 =>
                /\ plays[k].pc = "started"
                /\ sources[plays[k].src].play = k
                /\ sources[plays[k].src].state # "playing"
                /\ sources[plays[k].src].fired
    /\ \A s \in 1..Len(sources) :
        sources[s].fired => plays[sources[s].play].called = 1

\* the callback of an interrupted playback has run while the play() that
\* interrupted it is still reading, and that play()'s callback has not
C22_Witness ==
    \E k \in 1..Len(plays) : \E s \in Interrupted(k) :
        /\ plays[sources[s].play].called = 1
        /\ plays[k].pc = "reading"
        /\ plays[k].called = 0

\* everyone who can call stop() in the current state
Stoppers ==
    {ByUser} \cup {ByPlay(k) : k \in 1..(Len(plays) + 1)}
             \cup {ByEnded(s) : s \in 1..Len(sources)}

(***************************************************************************)
(* C23: whenever isPlaying is true, audioContext.current is a context that *)
(* is not null and not closed, and source.current is a source of that      *)
(* context that was started and not stopped; a stop() made in any          *)
(* reachable state leaves isPlaying false and audioContext.current null,   *)
(* and a second stop() after it changes nothing.                           *)
(***************************************************************************)
C23_PlayingState ==
    /\ isPlaying =>
        /\ audioContext # 0
        /\ contexts[audioContext].state = "running"
        /\ source # 0
        /\ sources[source].ctx = audioContext
        /\ sources[source].state \in {"playing", "finished"}
        /\ sources[source].connected
    /\ \A who \in Stoppers :
        LET stopped == Stop(Player, who)
        IN  /\ ~stopped.isPlaying
            /\ stopped.audioContext = 0
            /\ \A again \in Stoppers : Stop(stopped, again) = stopped

\* a playback runs after the page stopped an earlier one
C23_Witness ==
    /\ isPlaying
    /\ \E c \in 1..Len(contexts) : contexts[c].by = ByUser
    /\ \E s \in 1..Len(sources) : sources[s].state = "stopped"

(***************************************************************************)
(* C24: in the revisions that split the keyword reply on commas, every     *)
(* keyword that extractKeywords returns, and every keyword passed to the   *)
(* embedding service, is a non-empty text without surrounding white space, *)
(* whatever non-empty reply the model gave (consecutive, leading and       *)
(* trailing commas included).                                              *)
(***************************************************************************)
C24_KeywordsNonEmptyTrimmed ==
    variant \in KeywordVariants \ JsonKeywordVariants =>
        /\ \A k \in 1..Len(keywords) :
                /\ keywords[k] # <<>>
                /\ Trim(keywords[k]) = keywords[k]
        /\ \A k \in CallsTo("embed") :
                /\ calls[k].arg # <<>>
                /\ Trim(calls[k].arg) = calls[k].arg

=============================================================================
